---- MODULE Spec2Model ----
(***************************************************************************)
(* A model of package retry (src/retry.go, lines 1-151: the v3 code with   *)
(* DoContext).  One invocation of Retry.Do / Retry.DoContext is a state    *)
(* machine over the positions of the attempt loop; the caller-supplied     *)
(* operations are inputs whose behaviour (return nil, return an error,     *)
(* panic) is chosen on every invocation from a small set.                  *)
(*                                                                         *)
(* Durations are counted in units of 250ms, so time.Second is 4.           *)
(***************************************************************************)
EXTENDS Integers, Sequences, FiniteSets, TLC

VARIABLES r, nfns, ctxDone, api, pc, i, j, err, result, calls, sleeps,
          ops, cap, cancelAt, other

vars == <<r, nfns, ctxDone, api, pc, i, j, err, result, calls, sleeps,
          ops, cap, cancelAt, other>>

\* ------------------------------------------------------------------ bounds
MaxAttempts == 3
MaxFns == 2
MaxNest == 2

\* time.Second in the model's unit of 250ms
Second == 4

\* ------------------------------------------------------------ error values
\* Every error value is a record [k, id, sub]: k is its dynamic type, id
\* tells apart the values made by errors.New, sub holds what it wraps.
NilErr == [k |-> "nil", id |-> 0, sub |-> <<>>]

New(n) == [k |-> "plain", id |-> n, sub |-> <<>>]

E1 == New(1)
E2 == New(2)
X == New(3)

\* context.Canceled, what ctx.Err() reports once the context is done
Canceled == New(8)

errPanic == New(9)

\* &retry.StopError{Err: e}
StopPtr(e) == [k |-> "stopPtr", id |-> 0, sub |-> <<e>>]

\* retry.StopError{Err: e}, returned by value
StopVal(e) == [k |-> "stopVal", id |-> 0, sub |-> <<e>>]

\* an ordinary error that wraps e: fmt.Errorf("...: %w", e)
Wrapf(e) == [k |-> "wrap", id |-> 0, sub |-> <<e>>]

\* a panic payload that is not an error value (a string)
Str == [k |-> "str", id |-> 7, sub |-> <<>>]

\* d layers of *StopError around X
RECURSIVE StopNest(_)
StopNest(d) == IF d = 0 THEN X ELSE StopPtr(StopNest(d - 1))

\* the Err field of a StopError
ErrOf(s) == s.sub[1]

StopErrorUnwrapNil(s) == NilErr

\* func (s StopError) Unwrap() error { return s.Err }
StopErrorUnwrap(s) == ErrOf(s)

\* The errors a value's Unwrap method yields: none when the type has no such
\* method, one for Unwrap() error, several for Unwrap() []error.
Unwrap(e) ==
    IF e.k \in {"stopPtr", "stopVal"} THEN <<StopErrorUnwrap(e)>> ELSE e.sub

NoMatch == [k |-> "nomatch", id |-> 0, sub |-> <<>>]

\* errors.As(err, &e) with e of type *StopError: the first value of the
\* chain (depth first) whose dynamic type is *StopError.  A StopError held
\* by value is not assignable to *StopError.
RECURSIVE As(_), AsSeq(_)
As(e) == IF e.k = "stopPtr" THEN e ELSE AsSeq(Unwrap(e))

AsSeq(es) ==
    IF es = <<>> THEN NoMatch
    ELSE IF Head(es) = NilErr THEN AsSeq(Tail(es))
    ELSE LET m == As(Head(es))
         IN IF m # NoMatch THEN m ELSE AsSeq(Tail(es))

\* errors.Is(e, target)
RECURSIVE Is(_, _), IsSeq(_, _)
Is(e, target) ==
    IF e = NilErr THEN FALSE
    ELSE IF e = target THEN TRUE
    ELSE IsSeq(Unwrap(e), target)

IsSeq(es, target) ==
    IF es = <<>> THEN FALSE
    ELSE Is(Head(es), target) \/ IsSeq(Tail(es), target)

\* -------------------------------------------------------------- operations
Ret(e) == [kind |-> "ret", val |-> e]
Panic(p) == [kind |-> "panic", val |-> p]

\* The operations of one run are of one of three kinds: they return errors
\* and *StopErrors, they return StopErrors by value, or they panic.
Returning ==
    {Ret(NilErr), Ret(E1), Ret(E2)}
    \cup {Ret(StopNest(d)) : d \in 1..MaxNest}
    \cup {Ret(StopPtr(NilErr)), Ret(Wrapf(StopPtr(X)))}

ByValue ==
    {Ret(NilErr), Ret(E1), Ret(StopPtr(X)), Ret(StopVal(X)), Ret(StopVal(NilErr))}

Panicking ==
    {Ret(NilErr), Ret(E1),
     Panic(E1), Panic(Str), Panic(StopPtr(X)), Panic(Wrapf(StopPtr(X)))}

\* what one invocation of a caller-supplied operation may do, over all runs
Outcomes == Returning \cup ByValue \cup Panicking

\* What the operations of a run may do on an invocation: an outcome, and
\* whether the operation calls cancel() of the caller's context before it
\* ends.  Nothing but Do itself holds the cancel of the context Do makes.
Quiet(outs) == {[out |-> o, cancel |-> FALSE] : o \in outs}

Cancelling(outs) == {[out |-> o, cancel |-> TRUE] : o \in outs}

\* the outcomes of the runs that look at cancellation and at the delays
FewOutcomes == {Ret(NilErr), Ret(E1), Ret(StopPtr(X)), Panic(E1)}

DoneTopNever(done) == FALSE

\* DoContext: select { case <-ctx.Done(): ... default: } at the head of the loop
DoneTop(done) == done

DoneFnNever(done) == FALSE

\* Retry.do: select { case <-ctx.Done(): ... default: } before each operation
DoneFn(done) == done

CtxErrNil(done) == NilErr

\* ctx.Err(): nil until the context is done
CtxErr(done) == IF done THEN Canceled ELSE NilErr

\* fmt.Errorf("%w: %w\n%s", errPanic, x, debug.Stack())
PanicErr(x) == [k |-> "panicErr", id |-> 0, sub |-> <<errPanic, x>>]

\* fmt.Errorf("%w: %s\n%s", errPanic, e, debug.Stack())
PanicStr(e) == [k |-> "panicStr", id |-> e.id, sub |-> <<errPanic>>]

RecoverNone(p) == [caught |-> FALSE, err |-> NilErr]

RecoverNoWrap(p) == [caught |-> TRUE, err |-> PanicStr(p)]

\* the deferred function of Retry.do: recover() and the type switch
Recover(p) ==
    [caught |-> TRUE,
     err |-> IF p.k = "str" THEN PanicStr(p) ELSE PanicErr(p)]

\* the value of err in Retry.do after the closure around fn() has run
AfterCall(out) ==
    IF out.kind = "ret" THEN [caught |-> TRUE, err |-> out.val]
    ELSE Recover(out.val)

GroupStopNever(e) == FALSE

\* Retry.do: if err != nil { return err }
GroupStop(e) == e # NilErr

GroupDoneFirst(jj, n) == TRUE

\* Retry.do: the range over fn1 and fns has no operation left
GroupDone(jj, n) == jj = n

\* ------------------------------------------------------------ delay methods
\* rand.Int63n(d): the values it may return; it panics when d <= 0
Int63n(d) == IF d <= 0 THEN {} ELSE 0..(d - 1)

StandardDelay(attempt, delay) == {delay}

IncrementalDelayMaxNoHalf(maximum, attempt, delay) ==
    IF delay = 0 THEN {0}
    ELSE LET d == IF delay > maximum THEN maximum ELSE delay
         IN {(d * attempt) + jitter : jitter \in Int63n(d)}

IncrementalDelayMaxCapped(maximum, attempt, delay) ==
    IF delay = 0 THEN {0}
    ELSE LET d == IF delay > maximum THEN maximum ELSE delay
             w == IF d * attempt > maximum THEN maximum ELSE d * attempt
         IN {w + (n \div 2) : n \in Int63n(d)}

IncrementalDelayMaxNoZero(maximum, attempt, delay) ==
    LET d == IF delay > maximum THEN maximum ELSE delay
    IN {(d * attempt) + (jitter \div 2) : jitter \in Int63n(d)}

\* the waits IncrementalDelayMax(maximum)(attempt, delay) may return; the
\* empty set when it panics
IncrementalDelayMax(maximum, attempt, delay) ==
    IF delay = 0 THEN {0}
    ELSE LET d == IF delay > maximum THEN maximum ELSE delay
         IN {(d * attempt) + (jitter \div 2) : jitter \in Int63n(d)}

IncrementalDelay(attempt, delay) == IncrementalDelayMax(Second, attempt, delay)

Methods == {"nil", "IncrementalDelay"}

Delays == {0, 2}

\* the maximum durations given to IncrementalDelayMax
Caps == {-1, 0, 1, 3, 6}

\* the delays of the runs that look at the delay methods
MoreDelays == {-1, 0, 2, 4, 6}

\* a method that would take rr.MaxDelay, when set, for the longest wait
MethodMaxDelay(rr, attempt, delay) ==
    LET ws == CASE rr.Method = "nil" -> StandardDelay(attempt, delay)
                [] rr.Method = "IncrementalDelay" -> IncrementalDelay(attempt, delay)
                [] OTHER -> IncrementalDelayMax(cap, attempt, delay)
    IN {IF rr.MaxDelay > 0 /\ w > rr.MaxDelay THEN rr.MaxDelay ELSE w : w \in ws}

MethodIncremental(rr, attempt, delay) == IncrementalDelay(attempt, delay)

\* method := r.Method; if method == nil { method = StandardDelay }, where a
\* method built by IncrementalDelayMax holds the maximum it was given
Method(rr, attempt, delay) ==
    IF rr.Method = "nil" THEN StandardDelay(attempt, delay)
    ELSE IF rr.Method = "IncrementalDelay" THEN IncrementalDelay(attempt, delay)
    ELSE IncrementalDelayMax(cap, attempt, delay)

\* -------------------------------------------------------------- the engine
LoopCondNe(idx, attempts) == idx # attempts

LoopCondFirst(idx, attempts) == idx < attempts /\ idx < 1

LoopCondLe(idx, attempts) == idx <= attempts

\* for i := range r.Attempts
LoopCond(idx, attempts) == idx < attempts

IsSuccessNever(e) == FALSE

\* if err == nil { return nil }
IsSuccess(e) == e = NilErr

IsStopNever(e) == FALSE

IsStopDirect(e) == e.k = "stopPtr"

\* var e *StopError; if errors.As(err, &e)
IsStop(e) == As(e) # NoMatch

StopResultInnermost(e) ==
    LET RECURSIVE Strip(_)
        Strip(x) == IF x.k = "stopPtr" THEN Strip(ErrOf(x)) ELSE x
    IN Strip(As(e))

StopResultSelf(e) == As(e)

\* return e.Err
StopResult(e) == ErrOf(As(e))

\* where and when the context was cancelled; at is "call" for a context that
\* was done before the call, "op" for an operation that called cancel(), and
\* else the position of the engine when somebody else did; ncalls counts the
\* invocations begun by then
NoCancel == [at |-> "none", attempt |-> 0, fn |-> 0, ncalls |-> 0, elapsed |-> 0]

CancelledAt(where, t) ==
    [at |-> where, attempt |-> i + 1, fn |-> j,
     ncalls |-> Len(calls) + (IF where = "op" THEN 1 ELSE 0), elapsed |-> t]

\* nothing has run yet
Idle ==
    /\ api = "none"
    /\ pc = "idle"
    /\ i = 0
    /\ j = 0
    /\ err = NilErr
    /\ result = NilErr
    /\ calls = <<>>
    /\ sleeps = <<>>
    /\ cancelAt = IF ctxDone THEN [NoCancel EXCEPT !.at = "call"] ELSE NoCancel

\* the variables of one call of Do or DoContext, for a call that runs in
\* another goroutine; Absent when there is no such call
Absent ==
    [api |-> "none", pc |-> "absent", ctxDone |-> FALSE, i |-> 0, j |-> 0,
     err |-> NilErr, result |-> NilErr, calls |-> <<>>, sleeps |-> <<>>,
     cancelAt |-> NoCancel]

Init ==
    /\ r \in [Attempts : (-1)..MaxAttempts, Delay : Delays, Method : Methods]
    /\ nfns \in 1..MaxFns
    /\ ctxDone \in BOOLEAN
    /\ ops \in {Quiet(Returning), Quiet(ByValue), Quiet(Panicking)}
    /\ cap = Second
    /\ other = Absent
    /\ Idle

\* context.Background() is never done
Background == FALSE

WithCancelDone(parentDone) == TRUE

\* context.WithCancel(parent): done once the parent is done or its cancel
\* is called, which Do defers to its return
WithCancel(parentDone) == parentDone

\* Retry.Do: a context of its own, which nothing cancels during the call
Do ==
    /\ pc = "idle"
    /\ api' = "Do"
    /\ ctxDone' = WithCancel(Background)
    /\ cancelAt' = NoCancel
    /\ pc' = "loop"
    /\ UNCHANGED <<other, r, nfns, i, j, err, result, calls, sleeps, ops, cap>>

\* Retry.DoContext with the caller's context
DoContext ==
    /\ pc = "idle"
    /\ api' = "DoContext"
    /\ pc' = "loop"
    /\ UNCHANGED <<other, r, nfns, ctxDone, i, j, err, result, calls, sleeps,
                   ops, cap, cancelAt>>

\* the head of the attempt loop, its select on ctx.Done(), and the return
\* after the loop
LoopTop ==
    /\ pc = "loop"
    /\ IF LoopCond(i, r.Attempts)
       THEN IF DoneTop(ctxDone)
            THEN /\ pc' = "done"
                 /\ result' = CtxErr(ctxDone)
                 /\ j' = j
            ELSE /\ pc' = "do"
                 /\ j' = 1
                 /\ result' = result
       ELSE /\ pc' = "done"
            /\ result' = err
            /\ j' = j
    /\ UNCHANGED <<other, r, nfns, ctxDone, api, i, err, calls, sleeps,
                   ops, cap, cancelAt>>

\* one iteration of the loop of Retry.do: the select on ctx.Done(), the call
\* of fn under recover, and the return of the first failure
CallFn ==
    /\ pc = "do"
    /\ IF DoneFn(ctxDone)
       THEN /\ err' = CtxErr(ctxDone)
            /\ pc' = "result"
            /\ UNCHANGED <<j, calls, ctxDone, cancelAt>>
       ELSE \E b \in ops :
              LET out == b.out
                  a == AfterCall(out)
              IN /\ calls' = Append(calls, [attempt |-> i + 1, fn |-> j,
                                            out |-> out, cancel |-> b.cancel])
                 /\ ctxDone' = (ctxDone \/ b.cancel)
                 /\ cancelAt' = IF b.cancel THEN CancelledAt("op", 0) ELSE cancelAt
                 /\ IF ~a.caught
                    THEN /\ pc' = "op_panic"
                         /\ UNCHANGED <<j, err>>
                    ELSE IF GroupStop(a.err)
                    THEN /\ err' = a.err
                         /\ pc' = "result"
                         /\ j' = j
                    ELSE IF GroupDone(j, nfns)
                    THEN /\ err' = NilErr
                         /\ pc' = "result"
                         /\ j' = j
                    ELSE /\ j' = j + 1
                         /\ pc' = "do"
                         /\ err' = err
    /\ UNCHANGED <<other, r, nfns, api, i, result, sleeps, ops, cap>>

\* DoContext after r.do returned: success, a StopError, or a retry
AttemptResult ==
    /\ pc = "result"
    /\ IF IsSuccess(err)
       THEN /\ pc' = "done"
            /\ result' = NilErr
       ELSE IF IsStop(err)
       THEN /\ pc' = "done"
            /\ result' = StopResult(err)
       ELSE /\ pc' = "sleep"
            /\ result' = result
    /\ UNCHANGED <<other, r, nfns, ctxDone, api, i, j, err, calls, sleeps,
                   ops, cap, cancelAt>>

AttemptIndexFromZero(idx) == idx

\* the attempt the delay method is given: i+1 for the loop variable i
AttemptIndex(idx) == idx + 1

\* method(i+1, r.Delay) and the entry into time.Sleep with what it returned
Sleep ==
    /\ pc = "sleep"
    /\ LET ws == Method(r, AttemptIndex(i), r.Delay)
       IN IF ws = {}
          THEN /\ pc' = "policy_panic"
               /\ UNCHANGED sleeps
          ELSE \E w \in ws :
                 /\ sleeps' = Append(sleeps, [attempt |-> AttemptIndex(i),
                                              wait |-> w, waited |-> 0])
                 /\ pc' = "wait"
    /\ UNCHANGED <<other, r, nfns, ctxDone, api, i, j, err, result, calls,
                   ops, cap, cancelAt>>

\* time.Sleep(d): it returns after d, at once when d is negative or zero
SleepFor(d) == IF d <= 0 THEN 0 ELSE d

\* time.Sleep returns, after the whole duration it was given, and the loop
\* steps to the next attempt
Wake ==
    /\ pc = "wait"
    /\ sleeps' = [sleeps EXCEPT
                    ![Len(sleeps)].waited = SleepFor(sleeps[Len(sleeps)].wait)]
    /\ i' = i + 1
    /\ pc' = "loop"
    /\ UNCHANGED <<other, r, nfns, ctxDone, api, j, err, result, calls,
                   ops, cap, cancelAt>>

\* Somebody other than the operations cancels the caller's context while
\* DoContext runs; inside a wait, at some moment before its end.
Cancel ==
    /\ api = "DoContext"
    /\ ~ctxDone
    /\ pc \in {"loop", "do", "result", "sleep", "wait"}
    /\ ctxDone' = TRUE
    /\ \E t \in 0..(IF pc = "wait" /\ sleeps[Len(sleeps)].wait > 0
                    THEN sleeps[Len(sleeps)].wait - 1 ELSE 0) :
         cancelAt' = CancelledAt(pc, t)
    /\ UNCHANGED <<other, r, nfns, api, pc, i, j, err, result, calls, sleeps,
                   ops, cap>>

SharedCounter(mine, theirs) == mine

\* the loop variable i of DoContext is a local of each call
OwnCounter(mine, theirs) == theirs

\* The scheduler takes the processor from the goroutine of this call and
\* gives it to the goroutine of the other call on the same Retry value,
\* which goes on with its own locals and its own context.
Switch ==
    /\ other.pc \notin {"absent", "done"}
    /\ other' = [api |-> api, pc |-> pc, ctxDone |-> ctxDone, i |-> i,
                 j |-> j, err |-> err, result |-> result, calls |-> calls,
                 sleeps |-> sleeps, cancelAt |-> cancelAt]
    /\ api' = other.api
    /\ pc' = other.pc
    /\ ctxDone' = other.ctxDone
    /\ i' = OwnCounter(i, other.i)
    /\ j' = other.j
    /\ err' = other.err
    /\ result' = other.result
    /\ calls' = other.calls
    /\ sleeps' = other.sleeps
    /\ cancelAt' = other.cancelAt
    /\ UNCHANGED <<r, nfns, ops, cap>>

Next == Do \/ DoContext \/ LoopTop \/ CallFn \/ AttemptResult \/ Sleep \/ Wake

\* runs whose context is done before the call or never
Spec == Init /\ [][Next]_vars

\* runs of DoContext whose context may be cancelled at any moment, by the
\* operations or by somebody else
InitCtx ==
    /\ r \in [Attempts : 0..MaxAttempts, Delay : Delays, Method : Methods]
    /\ nfns \in 1..MaxFns
    /\ ctxDone \in BOOLEAN
    /\ ops = Quiet(FewOutcomes) \cup Cancelling(FewOutcomes)
    /\ cap = Second
    /\ other = Absent
    /\ Idle

NextCtx == DoContext \/ LoopTop \/ CallFn \/ AttemptResult \/ Sleep \/ Wake \/ Cancel

SpecCtx == InitCtx /\ [][NextCtx]_vars

KeptCounter(old) == old

\* for i := range r.Attempts: every call of DoContext has an i of its own,
\* which starts at 0
FreshCounter(old) == 0

\* The call returns to its caller, who keeps what it did and returned and
\* may call again on the same Retry value: a new call, with new locals and
\* a new context.
Return ==
    /\ pc = "done"
    /\ other.pc = "absent"
    /\ other' = [api |-> api, pc |-> pc, ctxDone |-> ctxDone, i |-> i,
                 j |-> j, err |-> err, result |-> result, calls |-> calls,
                 sleeps |-> sleeps, cancelAt |-> cancelAt]
    /\ api' = "none"
    /\ pc' = "idle"
    /\ ctxDone' = FALSE
    /\ i' = FreshCounter(i)
    /\ j' = 0
    /\ err' = NilErr
    /\ result' = NilErr
    /\ calls' = <<>>
    /\ sleeps' = <<>>
    /\ cancelAt' = NoCancel
    /\ UNCHANGED <<r, nfns, ops, cap>>

\* the values a caller gives to the field MaxDelay, which is 0 in a Retry
\* value that does not set it
NewMaxDelays == {1, 6}

\* The caller assigns to r.MaxDelay between two calls.
SetMaxDelay ==
    /\ pc = "idle"
    /\ other.pc = "done"
    /\ r.MaxDelay = 0
    /\ \E d \in NewMaxDelays : r' = [r EXCEPT !.MaxDelay = d]
    /\ UNCHANGED <<nfns, ctxDone, api, pc, i, j, err, result, calls, sleeps,
                   ops, cap, cancelAt, other>>

\* two calls on one Retry value, one after the other, the second with the
\* same fields or with another MaxDelay; nobody cancels a context
InitAgain ==
    /\ r \in [Attempts : 0..(MaxAttempts - 1), Delay : Delays, Method : Methods,
               MaxDelay : {0}]
    /\ nfns \in 1..MaxFns
    /\ ctxDone = FALSE
    /\ ops = Quiet({Ret(NilErr), Ret(E1), Ret(StopPtr(X))})
    /\ cap = Second
    /\ other = Absent
    /\ Idle

NextAgain ==
    \/ Do \/ DoContext \/ LoopTop \/ CallFn \/ AttemptResult \/ Sleep \/ Wake
    \/ Return \/ SetMaxDelay

SpecAgain == InitAgain /\ [][NextAgain]_vars

\* the steps of the engine itself, from the head of the loop on
Engine == LoopTop \/ CallFn \/ AttemptResult \/ Sleep \/ Wake

NextLive ==
    Do \/ DoContext \/ LoopTop \/ CallFn \/ AttemptResult \/ Sleep \/ Wake \/ Cancel

\* runs of Do and DoContext in which every operation and every call of the
\* delay method returns and every time.Sleep comes to its end: a call that
\* has begun goes on with its next step
SpecLive == InitCtx /\ [][NextLive]_vars /\ WF_vars(Engine)

\* two calls on one Retry value in two goroutines, under every interleaving
\* of their steps; nobody cancels a context
InitPair ==
    /\ r \in [Attempts : 0..(MaxAttempts - 1), Delay : Delays, Method : Methods]
    /\ nfns \in 1..MaxFns
    /\ ctxDone = FALSE
    /\ ops = Quiet({Ret(NilErr), Ret(E1), Ret(StopPtr(X))})
    /\ cap = Second
    /\ other = [Absent EXCEPT !.pc = "idle"]
    /\ Idle

NextPair ==
    Do \/ DoContext \/ LoopTop \/ CallFn \/ AttemptResult \/ Sleep \/ Wake \/ Switch

SpecPair == InitPair /\ [][NextPair]_vars

\* runs that look at the delay methods: one operation that succeeds or
\* fails, more delays, and a method built by IncrementalDelayMax
InitPolicy ==
    /\ r \in [Attempts : 1..MaxAttempts, Delay : MoreDelays,
               Method : Methods \cup {"IncrementalDelayMax"}]
    /\ cap \in (IF r.Method = "IncrementalDelayMax" THEN Caps ELSE {Second})
    /\ nfns = 1
    /\ ctxDone = FALSE
    /\ ops = Quiet({Ret(NilErr), Ret(E1)})
    /\ other = Absent
    /\ Idle

NextPolicy == Do \/ DoContext \/ LoopTop \/ CallFn \/ AttemptResult \/ Sleep \/ Wake

SpecPolicy == InitPolicy /\ [][NextPolicy]_vars

\* ------------------------------------------------------------------ claims
\* Vocabulary of the claims, stated on the values themselves and not through
\* the engine's own tests.

\* e is, or somewhere in its cause chain holds, a *StopError
RECURSIVE HasStop(_)
HasStop(e) ==
    \/ e.k = "stopPtr"
    \/ \E n \in 1..Len(e.sub) : HasStop(e.sub[n])

\* the operation returned an error that neither is nor wraps a Stop Signal
OrdinaryRet(out) == out.kind = "ret" /\ out.val # NilErr /\ ~HasStop(out.val)

\* the operation failed (returned an error or panicked) with no Stop Signal
OrdinaryFail(out) ==
    \/ OrdinaryRet(out)
    \/ out.kind = "panic" /\ ~HasStop(out.val)

\* the operation returned a *StopError
StopRet(out) == out.kind = "ret" /\ out.val.k = "stopPtr"

\* every invocation before the k-th failed ordinarily
OrdinaryBefore(k) == \A m \in 1..(k - 1) : OrdinaryFail(calls[m].out)

LastCall == calls[Len(calls)]

\* C1: with a budget N >= 1, one operation and no cancellation, a run in
\* which every invocation returned an ordinary error made exactly N
\* invocations, one per attempt, and returns the error of the N-th, never
\* more than N invocations on the way.
C1_AlwaysFailingRunsNTimes ==
    (nfns = 1 /\ r.Attempts >= 1 /\ ~ctxDone
       /\ \A k \in 1..Len(calls) : OrdinaryRet(calls[k].out))
    => /\ Len(calls) <= r.Attempts
       /\ \A k \in 1..Len(calls) : calls[k].attempt = k
       /\ pc = "done" => /\ Len(calls) = r.Attempts
                         /\ result = calls[r.Attempts].out.val

C1_Witness ==
    /\ pc = "done" /\ nfns = 1 /\ r.Attempts = 3 /\ Len(calls) = 3
    /\ \A k \in 1..3 : OrdinaryRet(calls[k].out)
    /\ calls[1].out = Ret(E1) /\ calls[3].out = Ret(E2)
    /\ result = E2

\* C2: with one operation, K ordinary failures followed by a success are
\* K+1 invocations (K < N); nothing is invoked after the success, the delay
\* method was called for the K failures only, and the run returns nil.
C2_SuccessEndsRun ==
    (nfns = 1 /\ r.Attempts >= 1) =>
      \A k \in 1..Len(calls) :
        (OrdinaryBefore(k) /\ calls[k].out = Ret(NilErr))
        => /\ k = Len(calls)
           /\ k <= r.Attempts
           /\ Len(sleeps) = k - 1
           /\ pc \in {"result", "done"}
           /\ pc = "done" => result = NilErr

C2_Witness ==
    /\ pc = "done" /\ nfns = 1 /\ Len(calls) = 3 /\ Len(sleeps) = 2
    /\ OrdinaryBefore(3) /\ calls[3].out = Ret(NilErr)
    /\ result = NilErr

\* C3: with a budget <= 0 no operation is invoked, the delay method is never
\* called and the call returns nil, also when the context is already done.
C3_NoBudgetNoCall ==
    r.Attempts <= 0 =>
      /\ calls = <<>>
      /\ sleeps = <<>>
      /\ pc \in {"idle", "loop", "done"}
      /\ pc = "done" => result = NilErr

C3_Witness ==
    /\ pc = "done" /\ r.Attempts < 0 /\ ctxDone /\ api = "DoContext"
    /\ nfns = 2 /\ result = NilErr

\* C4: with one operation, a *StopError first returned on invocation i after
\* ordinary failures ends the run: i invocations in all, no call of the
\* delay method and no attempt after it, and the run returns its Err.
C4_StopEndsRun ==
    nfns = 1 =>
      \A k \in 1..Len(calls) :
        (OrdinaryBefore(k) /\ StopRet(calls[k].out))
        => /\ k = Len(calls)
           /\ k <= r.Attempts
           /\ Len(sleeps) = k - 1
           /\ pc \in {"result", "done"}
           /\ pc = "done" => result = ErrOf(calls[k].out.val)

C4_Witness ==
    /\ pc = "done" /\ nfns = 1 /\ r.Attempts = 3 /\ Len(calls) = 2
    /\ OrdinaryBefore(2) /\ calls[2].out = Ret(StopPtr(X))
    /\ Len(sleeps) = 1 /\ result = X

\* the run has returned and its last invocation returned d layers of
\* *StopError around X
EndedOnNest(d) ==
    /\ pc = "done"
    /\ Len(calls) >= 1
    /\ LastCall.out = Ret(StopNest(d))

C6_ResultIsInnermost ==
    \A d \in 1..MaxNest : EndedOnNest(d) => Is(result, X)

C6_Witness == EndedOnNest(MaxNest) /\ result # X /\ Is(result, X)

\* the operation returned a StopError by value
StopValRet(out) == out.kind = "ret" /\ out.val.k = "stopVal"

\* C7 as stated: with one operation, a StopError returned by value for the
\* first time on invocation i ends the run like the pointer form: i
\* invocations in all, and the run returns its Err.
C7_ValueStopEndsRun ==
    nfns = 1 =>
      \A k \in 1..Len(calls) :
        (/\ \A m \in 1..(k - 1) : OrdinaryFail(calls[m].out) /\ ~StopValRet(calls[m].out)
         /\ StopValRet(calls[k].out))
        => /\ k = Len(calls)
           /\ pc = "done" => result = ErrOf(calls[k].out.val)

\* C8: a panic of an operation never leaves Do/DoContext, whatever the
\* operations did before and whatever the payload is.
C8_PanicNeverEscapes ==
    /\ pc # "op_panic"
    /\ \A k \in 1..Len(calls) :
         calls[k].out.kind = "panic" =>
           pc \in {"do", "result", "sleep", "wait", "loop", "done"}

C8_Witness ==
    /\ pc = "done"
    /\ \E k \in 1..Len(calls) : calls[k].out = Panic(Str)
    /\ \E k \in 1..Len(calls) : calls[k].out = Panic(E1)

\* every invocation so far panicked
AllPanicked == \A k \in 1..Len(calls) : calls[k].out.kind = "panic"

\* what C9 promises of the result of a run whose invocations all panicked
PanicResult ==
    /\ Len(calls) = r.Attempts
    /\ \A k \in 1..Len(calls) : calls[k].attempt = k
    /\ Len(sleeps) >= r.Attempts - 1
    /\ Is(result, errPanic)
    /\ LastCall.out.val.k # "str" => Is(result, LastCall.out.val)

\* C9 as stated: with one operation and a budget N >= 1, a run whose
\* invocations all panicked, with any payload, made N invocations and
\* returns a panic failure that holds the payload.
C9_PanicRetried ==
    (pc = "done" /\ nfns = 1 /\ r.Attempts >= 1 /\ ~ctxDone /\ AllPanicked)
    => PanicResult

\* C9 amended: the same for payloads that neither are nor wrap a *StopError;
\* a panic whose payload is or wraps a *StopError ends the run at that
\* invocation, which returns that StopError's Err without the panic marker.
C9_PanicRetriedUnlessStop ==
    /\ (pc = "done" /\ nfns = 1 /\ r.Attempts >= 1 /\ ~ctxDone /\ AllPanicked
          /\ \A k \in 1..Len(calls) : ~HasStop(calls[k].out.val))
       => PanicResult
    /\ \A k \in 1..Len(calls) :
         (calls[k].out.kind = "panic" /\ HasStop(calls[k].out.val))
         => /\ k = Len(calls)
            /\ pc \in {"result", "done"}
            /\ pc = "done" => result = X /\ ~Is(result, errPanic)

C9_Witness ==
    /\ pc = "done" /\ nfns = 1 /\ r.Attempts = 3 /\ Len(calls) = 3
    /\ AllPanicked
    /\ calls[1].out = Panic(Str) /\ calls[3].out = Panic(E1)
    /\ Is(result, errPanic) /\ Is(result, E1)

\* the operation failed: it returned an error or panicked
Failed(out) == out # Ret(NilErr)

\* C10: within an attempt nothing is invoked after the first failing
\* operation, and the attempt's outcome is that failure: the returned error,
\* or for a panic a panic failure that holds the payload when it is an error.
C10_FirstFailureEndsAttempt ==
    \A k \in 1..Len(calls) :
      Failed(calls[k].out) =>
        /\ \A m \in (k + 1)..Len(calls) : calls[m].attempt > calls[k].attempt
        /\ (k = Len(calls) /\ pc = "result") =>
             IF calls[k].out.kind = "ret" THEN err = calls[k].out.val
             ELSE /\ Is(err, errPanic)
                  /\ calls[k].out.val.k # "str" => Is(err, calls[k].out.val)

C10_Witness ==
    /\ pc = "result" /\ nfns = 2 /\ Len(calls) = 2
    /\ calls[1].fn = 1 /\ calls[1].attempt = 1 /\ calls[1].out = Ret(E1)
    /\ calls[2].fn = 1 /\ calls[2].attempt = 2 /\ calls[2].out = Panic(E1)

\* in a group [A, B], A has always succeeded and B has always failed with an
\* ordinary returned error
ASucceedsBFails ==
    \A k \in 1..Len(calls) :
      /\ calls[k].fn = 1 => calls[k].out = Ret(NilErr)
      /\ calls[k].fn = 2 => OrdinaryRet(calls[k].out)

\* C11: every attempt restarts the group from its first operation.  For a
\* group [A, B] with a budget N >= 1 and no cancellation, where A always
\* succeeds and B always fails ordinarily, the invocations are A, B, A, B, ...
\* one pair per attempt; the finished run invoked A exactly N times and B
\* exactly N times and returns B's last failure.
C11_GroupRestartsFromFirst ==
    (nfns = 2 /\ r.Attempts >= 1 /\ ~ctxDone /\ ASucceedsBFails)
    => /\ \A k \in 1..Len(calls) :
            /\ calls[k].fn = IF k % 2 = 1 THEN 1 ELSE 2
            /\ calls[k].attempt = (k + 1) \div 2
       /\ Len(calls) <= 2 * r.Attempts
       /\ pc = "done" =>
            /\ Cardinality({k \in 1..Len(calls) : calls[k].fn = 1}) = r.Attempts
            /\ Cardinality({k \in 1..Len(calls) : calls[k].fn = 2}) = r.Attempts
            /\ result = LastCall.out.val

C11_Witness ==
    /\ pc = "done" /\ nfns = 2 /\ r.Attempts = 3 /\ Len(calls) = 6
    /\ ASucceedsBFails
    /\ calls[2].out = Ret(E1) /\ calls[6].out = Ret(E2)
    /\ result = E2

\* C12: with a budget N >= 1, a context that is already done when DoContext
\* is called means no invocation and no call of the delay method, and
\* DoContext returns ctx.Err().
C12_DoneBeforeCall ==
    (api = "DoContext" /\ cancelAt.at = "call" /\ r.Attempts >= 1)
    => /\ calls = <<>>
       /\ sleeps = <<>>
       /\ pc \in {"loop", "done"}
       /\ pc = "done" => result = Canceled

C12_Witness ==
    /\ pc = "done" /\ api = "DoContext" /\ cancelAt.at = "call"
    /\ r.Attempts = 3 /\ nfns = 2 /\ calls = <<>> /\ result = Canceled

\* the k-th invocation called cancel() and then returned success
CancelThenSuccess(k) == calls[k].cancel /\ calls[k].out = Ret(NilErr)

\* C13 as stated: an operation that cancels the context and then returns
\* success is the last invocation of the run, and DoContext returns
\* ctx.Err(), in every attempt and for every operation of the group.
C13_CancelThenSuccess ==
    \A k \in 1..Len(calls) :
      CancelThenSuccess(k) =>
        /\ k = Len(calls)
        /\ pc = "done" => result = Canceled

\* C13 amended: the same for an operation that is not the last of its
\* group; when the last operation of the group cancels the context and
\* returns success, nothing is invoked after it either, and DoContext returns
\* nil.
C13_CancelThenSuccessNotLast ==
    \A k \in 1..Len(calls) :
      CancelThenSuccess(k) =>
        /\ k = Len(calls)
        /\ pc = "done" =>
             result = IF calls[k].fn < nfns THEN Canceled ELSE NilErr

C13_Witness ==
    /\ pc = "done" /\ r.Attempts = 2 /\ nfns = 2 /\ Len(calls) = 2
    /\ calls[1].out = Ret(E1) /\ ~calls[1].cancel
    /\ calls[2].attempt = 2 /\ calls[2].fn = 1 /\ CancelThenSuccess(2)
    /\ result = Canceled

\* the select of Retry.do has seen the context done: only there does an
\* attempt end with ctx.Err(), no operation of these runs returns it
SeenInDo == err = Canceled

\* C14 as stated: once the checkpoint before an operation has seen the
\* context done, the engine ends like on a Stop Signal: the delay method is
\* not called, no wait is entered and no attempt is started; it returns
\* ctx.Err().
C14_CheckpointBypassesBackoff ==
    SeenInDo =>
      /\ pc \in {"result", "done"}
      /\ Len(sleeps) = i
      /\ pc = "done" => result = Canceled

\* somebody cancelled the context between two attempts: after the attempt
\* had failed and before the head of the next one
CancelledBetween == cancelAt.at \in {"sleep", "wait", "loop"}

\* the number of the attempt that had failed by then
FailedBefore ==
    IF cancelAt.at = "loop" THEN cancelAt.attempt - 1 ELSE cancelAt.attempt

\* C15: when the context is cancelled after attempt k has failed ordinarily
\* and before attempt k+1 starts, k < N, exactly k attempts are executed (k
\* invocations with one operation), attempt k+1 invokes nothing, and
\* DoContext returns ctx.Err() and not the failure of the last operation.
C15_CancelBetweenAttempts ==
    (CancelledBetween /\ FailedBefore >= 1 /\ FailedBefore < r.Attempts)
    => /\ \A m \in 1..Len(calls) : calls[m].attempt <= FailedBefore
       /\ calls # <<>> /\ LastCall.attempt = FailedBefore
       /\ nfns = 1 => Len(calls) = FailedBefore
       /\ pc \in {"sleep", "wait", "loop", "done"}
       /\ pc = "done" => /\ result = Canceled
                         /\ result # AfterCall(LastCall.out).err

C15_Witness ==
    /\ pc = "done" /\ cancelAt.at = "wait" /\ FailedBefore = 2
    /\ r.Attempts = 3 /\ nfns = 1 /\ Len(calls) = 2
    /\ LastCall.out = Ret(E1) /\ result = Canceled

\* C16 as stated: a cancel that arrives while the engine is in the wait after
\* a failed attempt ends that wait at once: the engine has waited no longer
\* than up to the moment of the cancel, and DoContext returns ctx.Err().
C16_WaitInterrupted ==
    (cancelAt.at = "wait" /\ pc # "wait")
    => /\ sleeps[cancelAt.attempt].waited = cancelAt.elapsed
       /\ pc = "done" => result = Canceled

\* C17 as stated: once the context is cancelled, at whatever point of a run
\* with a budget N >= 1, the run returns ctx.Err(), never nil and never the
\* failure of an operation.
C17_CancelAlwaysSurfaces ==
    (cancelAt.at # "none" /\ r.Attempts >= 1 /\ pc = "done")
    => result = Canceled

\* the engine comes to one of its checkpoints after the cancel: the select
\* before a further operation of the group, or the select at the head of a
\* further attempt
CheckpointAfterCancel ==
    \/ cancelAt.at \in {"call", "do"}
    \/ /\ cancelAt.at = "op"
       /\ LastCall.out = Ret(NilErr)
       /\ LastCall.fn < nfns
    \/ /\ cancelAt.at \in {"op", "result"} => OrdinaryFail(LastCall.out)
       /\ cancelAt.at \in {"op", "result", "sleep", "wait", "loop"}
       /\ FailedBefore < r.Attempts

\* what the run returns when it comes to no checkpoint any more
ResultOfLastCall ==
    IF LastCall.out = Ret(NilErr) THEN NilErr
    ELSE IF StopRet(LastCall.out) THEN ErrOf(LastCall.out.val)
    ELSE AfterCall(LastCall.out).err

\* C17 amended: after the cancel no operation is invoked any more, and the
\* run returns ctx.Err() when the engine comes to a checkpoint after it.
\* When it comes to none, the run returns what the operation that ran last
\* decides: nil when it ended its group with success, the Err of its
\* *StopError, or its failure when the budget is used up.
C17_CancelSurfacesAtCheckpoint ==
    (cancelAt.at # "none" /\ r.Attempts >= 1)
    => /\ Len(calls) = cancelAt.ncalls
       /\ pc = "done" =>
            result = IF CheckpointAfterCancel THEN Canceled ELSE ResultOfLastCall

C17_Witness ==
    /\ pc = "done" /\ r.Attempts = 2 /\ nfns = 2
    /\ cancelAt.at = "do" /\ cancelAt.attempt = 2 /\ cancelAt.fn = 2
    /\ Len(calls) = 3 /\ result = Canceled

\* the time the engine has spent in the first n of its waits
RECURSIVE Waited(_)
Waited(n) == IF n = 0 THEN 0 ELSE Waited(n - 1) + sleeps[n].waited

\* a run with one operation and a budget N >= 1 has returned after N
\* attempts, in each of which the operation returned an ordinary error
AlwaysFailingRunDone ==
    /\ pc = "done" /\ nfns = 1 /\ r.Attempts >= 1
    /\ Len(calls) = r.Attempts
    /\ \A k \in 1..Len(calls) : OrdinaryRet(calls[k].out)

\* C18 as stated: a wait is entered only after the failure of an attempt
\* before the last one; N always-failing attempts make N-1 calls of the
\* delay method and N-1 waits, (N-1) x Delay in all under the constant method.
C18_NoTrailingWait ==
    /\ \A m \in 1..Len(sleeps) : sleeps[m].attempt < r.Attempts
    /\ AlwaysFailingRunDone =>
         /\ Len(sleeps) = r.Attempts - 1
         /\ r.Method = "nil" => Waited(Len(sleeps)) = (r.Attempts - 1) * r.Delay

\* the k-th invocation ended the run: it ended its group with success, or its
\* failure holds a *StopError
EndsRun(k) ==
    \/ calls[k].out = Ret(NilErr) /\ calls[k].fn = nfns
    \/ HasStop(calls[k].out.val)

\* C18 amended: the delay method is called and a wait entered after the
\* ordinary failure of every attempt i <= N, the last one included, and
\* never after an attempt that ended with success or a Stop Signal; N
\* always-failing attempts make N calls of the delay method and N waits,
\* N x Delay in all under the constant method.
C18_WaitAfterEveryFailure ==
    /\ \A m \in 1..Len(sleeps) :
         /\ sleeps[m].attempt = m
         /\ m <= r.Attempts
         /\ \A k \in 1..Len(calls) : calls[k].attempt = m => ~EndsRun(k)
    /\ \A k \in 1..Len(calls) :
         (OrdinaryFail(calls[k].out)
            /\ (k < Len(calls) \/ pc \in {"wait", "loop", "done"}))
         => Len(sleeps) >= calls[k].attempt
    /\ AlwaysFailingRunDone =>
         /\ Len(sleeps) = r.Attempts
         /\ r.Method = "nil" => Waited(Len(sleeps)) = r.Attempts * r.Delay

C18_Witness ==
    /\ AlwaysFailingRunDone /\ r.Attempts = 3 /\ r.Method = "nil" /\ r.Delay = 2
    /\ Len(sleeps) = 3 /\ sleeps[3].attempt = 3 /\ Waited(3) = 6

\* C19: with no Method configured the engine uses the constant method: every
\* wait it asks for is the configured Delay, whatever the attempt, and a
\* zero Delay gives a zero wait.
C19_DefaultIsConstant ==
    r.Method = "nil" =>
      /\ pc # "policy_panic"
      /\ \A m \in 1..Len(sleeps) :
           /\ sleeps[m].attempt = m
           /\ sleeps[m].wait = r.Delay
           /\ r.Delay = 0 => sleeps[m].wait = 0 /\ sleeps[m].waited = 0

C19_Witness ==
    /\ pc = "done" /\ r.Method = "nil" /\ r.Delay = 4 /\ r.Attempts = 3
    /\ Len(sleeps) = 3
    /\ \A m \in 1..3 : sleeps[m].attempt = m /\ sleeps[m].wait = 4

\* C20: IncrementalDelay and IncrementalDelayMax(c) return a zero wait when
\* the Delay is zero, for every attempt and every maximum c, also c <= 0;
\* a run with a zero Delay spends no time in its waits, under any method.
C20_ZeroDelayZeroWait ==
    r.Delay = 0 =>
      /\ pc # "policy_panic"
      /\ \A m \in 1..Len(sleeps) : sleeps[m].wait = 0
      /\ Waited(Len(sleeps)) = 0

C20_Witness ==
    /\ pc = "done" /\ r.Delay = 0 /\ r.Method = "IncrementalDelayMax"
    /\ cap = 0 /\ r.Attempts = 3 /\ Len(sleeps) = 3
    /\ sleeps[3].attempt = 3 /\ sleeps[3].wait = 0

\* the maximum of the incremental method of the run: the one given to
\* IncrementalDelayMax, and time.Second for IncrementalDelay
MaximumOf == IF r.Method = "IncrementalDelay" THEN Second ELSE cap

\* min(D, C): the Delay clamped to the maximum
Clamped == IF r.Delay > MaximumOf THEN MaximumOf ELSE r.Delay

C22_WaitNeverExceedsMaximum ==
    (r.Method \in {"IncrementalDelay", "IncrementalDelayMax"}
       /\ MaximumOf > 0 /\ r.Delay > 0)
    => \A m \in 1..Len(sleeps) : 2 * (sleeps[m].wait - MaximumOf) < Clamped

\* every operation of attempt a was invoked and returned nil
AttemptSucceeded(a) ==
    /\ \A f \in 1..nfns :
         \E k \in 1..Len(calls) :
           calls[k].attempt = a /\ calls[k].fn = f /\ calls[k].out = Ret(NilErr)
    /\ \A k \in 1..Len(calls) : calls[k].attempt = a => calls[k].out = Ret(NilErr)

\* the outermost *StopError of the cause chain of e, which holds one
RECURSIVE OuterStop(_)
OuterStop(e) ==
    IF e.k = "stopPtr" THEN e
    ELSE OuterStop(e.sub[CHOOSE n \in 1..Len(e.sub) :
                           /\ HasStop(e.sub[n])
                           /\ \A m \in 1..(n - 1) : ~HasStop(e.sub[m])])

\* Success: the budget is <= 0 or some attempt succeeded, and the run
\* returns nil
SuccessOutcome ==
    /\ r.Attempts <= 0 \/ \E a \in 1..r.Attempts : AttemptSucceeded(a)
    /\ result = NilErr

\* Exhausted: the last invocation, in attempt N, failed ordinarily, and the
\* run returns that failure, which is not nil
ExhaustedOutcome ==
    /\ calls # <<>> /\ OrdinaryFail(LastCall.out)
    /\ LastCall.attempt = r.Attempts /\ i = r.Attempts
    /\ result = AfterCall(LastCall.out).err
    /\ result # NilErr

\* Stopped: the last invocation ended with a Stop Signal, which the
\* operation returned (or, when panics count, panicked with), and the run
\* returns the Err of it
StoppedOutcome(panics) ==
    /\ calls # <<>> /\ HasStop(LastCall.out.val)
    /\ panics \/ LastCall.out.kind = "ret"
    /\ result = ErrOf(OuterStop(LastCall.out.val))

\* Cancelled: the context is done and the run returns ctx.Err()
CancelledOutcome == ctxDone /\ result = Canceled

\* C25 as stated: every run ends in one of the four outcomes with the
\* matching value, where a Stop Signal is one an operation returned, and a
\* nil result means Success: the budget is <= 0 or some attempt completed
\* with every operation succeeding.
C25_OneOfFourOutcomes ==
    pc = "done" =>
      /\ \/ SuccessOutcome \/ ExhaustedOutcome
         \/ StoppedOutcome(FALSE) \/ CancelledOutcome
      /\ result = NilErr => SuccessOutcome

\* C25 amended: every run ends in one of the four outcomes with the matching
\* value, where a Stop Signal is one an operation returned or panicked with.
\* The run returns nil only if the budget is <= 0, some attempt completed
\* with every operation succeeding, or the Stop Signal's inner error is nil;
\* the failure of the last invocation only after all N attempts; ctx.Err()
\* only if the context is done; and an ordinary failure of the final
\* attempt is never turned into nil.
C25_OneOfFourOutcomesNilStop ==
    pc = "done" =>
      /\ Cardinality({o \in {"success", "exhausted", "stopped", "cancelled"} :
                        \/ o = "success" /\ SuccessOutcome
                        \/ o = "exhausted" /\ ExhaustedOutcome
                        \/ o = "stopped" /\ StoppedOutcome(TRUE)
                        \/ o = "cancelled" /\ CancelledOutcome}) = 1
      /\ result = NilErr => (SuccessOutcome \/ StoppedOutcome(TRUE))
      /\ (calls # <<>> /\ OrdinaryFail(LastCall.out))
         => /\ result # NilErr
            /\ result = AfterCall(LastCall.out).err => ExhaustedOutcome
      /\ result = Canceled => ctxDone

C25_Witness ==
    /\ pc = "done" /\ r.Attempts = 3 /\ Len(calls) = 2
    /\ calls[1].out = Ret(E1) /\ calls[2].out = Ret(StopPtr(NilErr))
    /\ result = NilErr /\ StoppedOutcome(TRUE) /\ ~SuccessOutcome

\* the attempts whose wait the run has asked the delay method for
PolicyCalls == IF pc = "wait" THEN i + 1 ELSE i

\* C26: the m-th call of the delay method of a run is method(m, r.Delay),
\* made after the failure of attempt m, and the wait entered is what it
\* returned: the method sees the attempts 1, 2, 3, ... in this order, each
\* once, and never attempt 0.
C26_PolicyIndexOneBased ==
    /\ pc \in {"loop", "do", "result", "sleep", "wait", "done"}
       => Len(sleeps) = PolicyCalls
    /\ \A m \in 1..Len(sleeps) :
         /\ sleeps[m].attempt = m
         /\ sleeps[m].wait \in (CASE r.Method = "nil" -> {r.Delay}
                                  [] r.Method = "IncrementalDelay"
                                     -> IncrementalDelayMax(Second, m, r.Delay)
                                  [] OTHER
                                     -> IncrementalDelayMax(cap, m, r.Delay))
         /\ \E k \in 1..Len(calls) :
              /\ calls[k].attempt = m /\ Failed(calls[k].out)
              /\ \A n \in (k + 1)..Len(calls) : calls[n].attempt > m

C26_Witness ==
    /\ pc = "done" /\ r.Method = "IncrementalDelay" /\ r.Delay = 2
    /\ r.Attempts = 3 /\ nfns = 2 /\ Len(calls) = 4
    /\ Len(sleeps) = 3
    /\ sleeps[1].wait = 2 /\ sleeps[2].wait = 4 /\ sleeps[3].wait = 6

C28_NilStopReturnsNil ==
    nfns = 1 =>
      \A k \in 1..Len(calls) :
        (OrdinaryBefore(k) /\ calls[k].out = Ret(StopPtr(NilErr)))
        => /\ k = Len(calls)
           /\ calls[k].attempt = k
           /\ pc \in {"result", "done"}
           /\ pc = "done" => result = NilErr

C28_Witness ==
    /\ pc = "done" /\ nfns = 1 /\ r.Attempts = 3 /\ Len(calls) = 3
    /\ calls[1].out = Ret(E1) /\ calls[2].out = Ret(E2)
    /\ calls[3].out = Ret(StopPtr(NilErr))
    /\ result = NilErr

\* the operation returned an ordinary error that wraps a *StopError
WrappedStopRet(out) ==
    out.kind = "ret" /\ out.val.k = "wrap" /\ HasStop(out.val)

\* C29: an operation that returns an ordinary error wrapping a *StopError
\* with Err X ends the run in that attempt: nothing is invoked after it, the
\* delay method is not called for the attempt, and the run returns X and
\* not the wrapping error.
C29_WrappedStopEndsRun ==
    \A k \in 1..Len(calls) :
      WrappedStopRet(calls[k].out)
      => /\ k = Len(calls)
         /\ Len(sleeps) = calls[k].attempt - 1
         /\ pc \in {"result", "done"}
         /\ pc = "done" => /\ result = ErrOf(OuterStop(calls[k].out.val))
                           /\ result = X
                           /\ result # calls[k].out.val

C29_Witness ==
    /\ pc = "done" /\ nfns = 2 /\ r.Attempts = 3 /\ Len(calls) = 3
    /\ calls[1].out = Ret(E1)
    /\ calls[2].out = Ret(NilErr)
    /\ calls[3].out = Ret(Wrapf(StopPtr(X)))
    /\ Len(sleeps) = 1 /\ result = X

\* C30: operations and attempts run one after the other, in order: the
\* first invocation is operation 1 of attempt 1; operation f > 1 of an
\* attempt is invoked right after operation f-1 of the same attempt
\* returned nil; operation 1 of attempt a > 1 is invoked after attempt a-1
\* ended with a failure and its wait is over; and a run in which every
\* invocation returned nil invoked each operation once, in the given order
\* (all of them, unless it returns ctx.Err()).
C30_StrictlySequential ==
    /\ \A k \in 1..Len(calls) :
         LET c == calls[k]
         IN /\ c.attempt \in 1..r.Attempts /\ c.fn \in 1..nfns
            /\ k = 1 => c.attempt = 1 /\ c.fn = 1
            /\ (k > 1 /\ c.fn > 1)
               => /\ calls[k - 1].attempt = c.attempt
                  /\ calls[k - 1].fn = c.fn - 1
                  /\ calls[k - 1].out = Ret(NilErr)
            /\ (k > 1 /\ c.fn = 1)
               => /\ calls[k - 1].attempt = c.attempt - 1
                  /\ Failed(calls[k - 1].out)
                  /\ Len(sleeps) >= c.attempt - 1
                  /\ sleeps[c.attempt - 1].waited
                       = SleepFor(sleeps[c.attempt - 1].wait)
    /\ (pc = "done" /\ calls # <<>>
          /\ \A k \in 1..Len(calls) : calls[k].out = Ret(NilErr))
       => /\ Len(calls) = nfns \/ result = Canceled
          /\ \A k \in 1..Len(calls) : calls[k].fn = k /\ calls[k].attempt = 1

C30_Witness ==
    /\ pc = "done" /\ nfns = 2 /\ r.Attempts = 3 /\ Len(calls) = 5
    /\ calls[2].out = Ret(E1) /\ calls[3].out = Ret(E2)
    /\ calls[4].out = Ret(NilErr) /\ calls[5].out = Ret(NilErr)
    /\ calls[5].attempt = 3 /\ calls[5].fn = 2

\* the variables of the call whose goroutine has the processor
ThisCall ==
    [api |-> api, pc |-> pc, ctxDone |-> ctxDone, i |-> i, j |-> j,
     err |-> err, result |-> result, calls |-> calls, sleeps |-> sleeps,
     cancelAt |-> cancelAt]

\* what the operations did, invocation by invocation
Outs(cs) == [k \in 1..Len(cs) |-> cs[k].out]

IsPrefix(a, b) == Len(a) <= Len(b) /\ \A k \in 1..Len(a) : a[k] = b[k]

Shorter(a, b) == IF Len(a) <= Len(b) THEN Len(a) ELSE Len(b)

\* a call d of Do and a call c of DoContext whose operations behaved alike,
\* as far as both have come, made the same invocations and the same calls
\* of the delay method, and neither goes on where the other has returned;
\* when both have returned they return the same
SameRun(d, c) ==
    (IsPrefix(Outs(d.calls), Outs(c.calls)) \/ IsPrefix(Outs(c.calls), Outs(d.calls)))
    => /\ \A k \in 1..Shorter(d.calls, c.calls) : d.calls[k] = c.calls[k]
       /\ \A m \in 1..Shorter(d.sleeps, c.sleeps) :
            d.sleeps[m].attempt = c.sleeps[m].attempt
       /\ d.pc = "done" => /\ Len(c.calls) <= Len(d.calls)
                           /\ Len(c.sleeps) <= Len(d.sleeps)
       /\ c.pc = "done" => /\ Len(d.calls) <= Len(c.calls)
                           /\ Len(d.sleeps) <= Len(c.sleeps)
       /\ (d.pc = "done" /\ c.pc = "done") => d.result = c.result

\* C23: Do is DoContext with a context that nobody cancels during the call:
\* on one Retry value and with operations that behave alike, a call of Do
\* and a call of DoContext whose context stays active make the same
\* invocations and the same calls of the delay method and return the same,
\* and Do never returns ctx.Err().
C23_DoIsDoContext ==
    /\ api = "Do" => ~ctxDone /\ result # Canceled
    /\ other.api = "Do" => ~other.ctxDone /\ other.result # Canceled
    /\ (api = "Do" /\ other.api = "DoContext") => SameRun(ThisCall, other)
    /\ (api = "DoContext" /\ other.api = "Do") => SameRun(other, ThisCall)

C23_Witness ==
    /\ api = "Do" /\ other.api = "DoContext"
    /\ pc = "done" /\ other.pc = "done"
    /\ r.Attempts = 2 /\ nfns = 2 /\ Len(calls) = 4
    /\ Outs(calls) = Outs(other.calls)
    /\ Len(sleeps) = 1 /\ result = X /\ other.result = X

\* the invocations before the k-th that failed
FailsBefore(cs, k) == {m \in 1..(k - 1) : Failed(cs[m].out)}

\* the invocations that failed with no Stop Signal
OrdinaryFails(cs) == {m \in 1..Len(cs) : OrdinaryFail(cs[m].out)}

\* the invocation ends the run of a call with a group of n operations
Ends(c, n) == (c.out = Ret(NilErr) /\ c.fn = n) \/ HasStop(c.out.val)

\* What a call whose context stays active does when it runs alone, told
\* from what its own operations did: the attempt and the operation of each
\* invocation, the attempt counter, the calls of the delay method, where
\* the run ends and what it returns.
AsIfAlone(st) ==
    LET cs == st.calls
        n == Len(cs)
        retried == Cardinality(OrdinaryFails(cs))
        pending == IF n > 0 /\ st.pc \in {"result", "sleep", "wait"}
                      /\ OrdinaryFail(cs[n].out)
                   THEN 1 ELSE 0
    IN /\ \A k \in 1..n :
            LET before == FailsBefore(cs, k)
                last == IF before = {} THEN 0
                        ELSE CHOOSE m \in before : \A x \in before : x <= m
            IN /\ cs[k].attempt = 1 + Cardinality(before)
               /\ cs[k].fn = k - last
               /\ k < n => ~Ends(cs[k], nfns)
       /\ retried <= r.Attempts \/ n = 0
       /\ st.i = retried - pending
       /\ Len(st.sleeps) = st.i + (IF st.pc = "wait" THEN 1 ELSE 0)
       /\ st.pc = "done"
          => /\ n = 0 <=> r.Attempts <= 0
             /\ n > 0 => (Ends(cs[n], nfns) \/ retried = r.Attempts)
             /\ st.result = IF n = 0 \/ cs[n].out = Ret(NilErr) THEN NilErr
                            ELSE IF HasStop(cs[n].out.val)
                            THEN ErrOf(OuterStop(cs[n].out.val))
                            ELSE AfterCall(cs[n].out).err

\* C24: two calls that run at once on one Retry value do not interfere:
\* under every interleaving of their steps each of them makes the
\* invocations, has the attempt counter and returns the result of a call
\* that runs alone with its own operations.
C24_NoInterference ==
    /\ ~ctxDone => AsIfAlone(ThisCall)
    /\ (other.pc # "absent" /\ ~other.ctxDone) => AsIfAlone(other)

C24_Witness ==
    /\ pc = "done" /\ other.pc = "done"
    /\ r.Attempts = 2 /\ nfns = 2
    /\ Len(calls) = 3 /\ result = E1 /\ i = 2
    /\ Len(other.calls) = 4 /\ other.result = NilErr /\ other.i = 1

\* somebody other than the operations cancelled the context while the call
\* was running
CancelledFromOutside == cancelAt.at \in {"loop", "do", "result", "sleep", "wait"}

\* C32: whenever somebody else cancels the context of a running call, no
\* operation is invoked whose checkpoint comes after the cancel (an
\* operation that had passed its checkpoint is one the cancel finds invoked
\* already), the first checkpoint after the cancel sees it, and a run that
\* came to a checkpoint after the cancel returns ctx.Err().
C32_NoCallAfterOutsideCancel ==
    (CancelledFromOutside /\ r.Attempts >= 1)
    => /\ ctxDone
       /\ Len(calls) = cancelAt.ncalls
       /\ \A k \in 1..Len(calls) :
            calls[k].attempt < cancelAt.attempt
            \/ (calls[k].attempt = cancelAt.attempt /\ calls[k].fn <= cancelAt.fn)
       /\ pc = "do" => /\ cancelAt.at = "do"
                       /\ cancelAt.attempt = i + 1 /\ cancelAt.fn = j
       /\ (pc = "done" /\ CheckpointAfterCancel) => result = Canceled

C32_Witness ==
    /\ pc = "done" /\ r.Attempts = 3 /\ nfns = 2
    /\ cancelAt.at = "do" /\ cancelAt.attempt = 2 /\ cancelAt.fn = 2
    /\ Len(calls) = 3 /\ calls[3].out = Ret(NilErr) /\ Len(sleeps) = 2
    /\ result = Canceled

C34_PolicyTotalNonNegative ==
    r.Method \in {"IncrementalDelay", "IncrementalDelayMax"}
    => /\ pc # "policy_panic"
       /\ \A n \in 1..MaxAttempts : Method(r, n, r.Delay) # {}
       /\ \A m \in 1..Len(sleeps) : sleeps[m].wait >= 0

\* the budget of the run, none when Attempts is negative
Budget == IF r.Attempts < 0 THEN 0 ELSE r.Attempts

\* C31: a call whose operations and delay method return comes to its end,
\* after at most N attempts, N calls of the delay method and N x (size of
\* the group) invocations; and once it has returned nothing is invoked, no
\* wait is entered and the result stays what it is.
C31_Terminates ==
    /\ [](/\ i <= Budget
          /\ Len(sleeps) <= Budget
          /\ Len(calls) <= Budget * nfns
          /\ \A k \in 1..Len(calls) : calls[k].attempt <= Budget)
    /\ (pc # "idle") ~> (pc = "done")
    /\ [][pc = "done" => /\ pc' = "done"
                         /\ calls' = calls
                         /\ sleeps' = sleeps
                         /\ result' = result]_vars

C31_Witness ==
    /\ pc = "done" /\ r.Attempts = 3 /\ nfns = 2
    /\ i = 3 /\ Len(calls) = 6 /\ Len(sleeps) = 3
    /\ ~ctxDone /\ result = E1

\* the call that runs is the second on this Retry value
SecondCall == other.pc = "done"

\* C35: a call leaves the fields of the Retry value as they are, and
\* nothing of a call is left for the next one: a second call on the same
\* Retry value starts with attempt 1 and the whole budget, and what it
\* invokes and returns is told by its own operations alone, however the
\* first call ended.
C35_NothingKeptBetweenCalls ==
    /\ [](SecondCall
           => /\ AsIfAlone(ThisCall)
              /\ pc = "idle" => i = 0 /\ err = NilErr
              /\ calls # <<>> => calls[1].attempt = 1 /\ calls[1].fn = 1
              /\ sleeps # <<>> => sleeps[1].attempt = 1
              /\ (pc = "done" /\ \A k \in 1..Len(calls) : OrdinaryFail(calls[k].out))
                 => Len(calls) = r.Attempts)
    /\ [][(pc # "idle" \/ pc' # "idle") => r' = r]_vars

C35_Witness ==
    /\ SecondCall /\ pc = "done" /\ r.MaxDelay = 0
    /\ r.Attempts = 2 /\ nfns = 1
    /\ Len(other.calls) = 2 /\ other.result = E1 /\ other.i = 2
    /\ Len(calls) = 2 /\ calls[1].out = Ret(E1) /\ calls[2].out = Ret(NilErr)
    /\ i = 1 /\ result = NilErr

\* C36: the field MaxDelay has no part in a call: a second call that
\* differs from the first in MaxDelay alone, and whose operations behave as
\* those of the first did, makes the same invocations, asks the delay
\* method for the same waits and returns the same result, with no Method
\* set and with IncrementalDelay alike.
C36_MaxDelayIsNotRead ==
    (SecondCall /\ r.MaxDelay # 0 /\ IsPrefix(Outs(calls), Outs(other.calls)))
    => /\ \A k \in 1..Len(calls) : calls[k] = other.calls[k]
       /\ Len(sleeps) <= Len(other.sleeps)
       /\ \A m \in 1..Len(sleeps) :
            /\ sleeps[m].attempt = other.sleeps[m].attempt
            /\ sleeps[m].wait = other.sleeps[m].wait
       /\ pc = "done" => /\ Len(calls) = Len(other.calls)
                         /\ Len(sleeps) = Len(other.sleeps)
                         /\ result = other.result

C36_Witness ==
    /\ SecondCall /\ pc = "done" /\ r.MaxDelay = 1
    /\ r.Attempts = 2 /\ r.Delay = 2 /\ r.Method = "IncrementalDelay"
    /\ Outs(calls) = Outs(other.calls) /\ Len(calls) = 2
    /\ Len(sleeps) = 2 /\ sleeps[2].wait = 4 /\ other.sleeps[2].wait = 4
    /\ result = E1 /\ other.result = E1

====
